---- MODULE Spec2Model ----
(***************************************************************************)
(* ipservice: resolution of an IP address to the country that owns it.     *)
(*                                                                         *)
(* The model covers the refresh cycle (IPService.Start, UpdateIPRanges),   *)
(* the resolver (IPService.LookupIP), the Redis cache (tier 1: "ip:<addr>" *)
(* keys, tier 2: the "ipranges" sorted set) and the Postgres range store   *)
(* (table ip_ranges).  Every call to Redis or Postgres is one step, so     *)
(* that lookups interleave with a refresh exactly where the code lets      *)
(* them.                                                                   *)
(***************************************************************************)
EXTENDS Integers, Sequences, FiniteSets, TLC

(***************************************************************************)
(* Bounds of the model.                                                    *)
(***************************************************************************)
\* number of configured sources in config.RIRs (the default configuration
\* has five; the cycle treats them uniformly)
NumRIRs == 2

(***************************************************************************)
(* Values.                                                                 *)
(***************************************************************************)
\* a nil error
Nil == "nil"
\* the country FindCountryForIP answers when no row matches
ZZ == "ZZ"
\* Go's empty string: GetCountry / GetCachedRange answer for "no entry"
NoCountry == ""
\* the mutex is unlocked
Free == "free"

\* a net.IP is a byte slice, 4 or 16 bytes long
V4Mapped(a, b, c, d) == <<0, 0, 0, 0, 0, 0, 0, 0, 0, 0, 255, 255, a, b, c, d>>

\* the address strings a caller passes to LookupIP
AddrStrings == {"8.8.8.8", "invalid"}

\* net.ParseIP: the 16-byte form of the address, or <<>> (nil)
ParseIP(s) ==
    CASE s = "8.8.8.8" -> V4Mapped(8, 8, 8, 8)
      [] s = "8.0.0.0" -> V4Mapped(8, 0, 0, 0)
      [] s = "9.9.9.9" -> V4Mapped(9, 9, 9, 9)
      [] s = "2001:db8::1" -> <<32, 1, 13, 184, 0, 0, 0, 0, 0, 0, 0, 0, 0, 0, 0, 1>>
      [] s = "2001:db8::" -> <<32, 1, 13, 184, 0, 0, 0, 0, 0, 0, 0, 0, 0, 0, 0, 0>>
      [] OTHER -> <<>>

\* net.IP.To4: the 4-byte form of an IPv4 address, <<>> (nil) otherwise
To4(ip) ==
    IF Len(ip) = 4 THEN ip
    ELSE IF /\ Len(ip) = 16
            /\ \A i \in 1..10 : ip[i] = 0
            /\ ip[11] = 255
            /\ ip[12] = 255
         THEN SubSeq(ip, 13, 16)
         ELSE <<>>

Pow2(n) == IF n = 0 THEN 1 ELSE 2 ^ n

\* net.CIDRMask(ones, bits): ones 1-bits followed by 0-bits, as bytes
CIDRMask(ones, bits) ==
    [k \in 1..(bits \div 8) |->
        IF ones >= 8 * k THEN 255
        ELSE IF ones <= 8 * (k - 1) THEN 0
        ELSE 256 - Pow2(8 * k - ones)]

\* b & m for a mask byte m (m = 256 - 2^j)
ByteAnd(b, m) == b - (b % (256 - m))

\* net.IP.Mask for an address and a mask of the same length
MaskIP(ip, mask) == [i \in 1..Len(ip) |-> ByteAnd(ip[i], mask[i])]

\* the number of leading 1-bits of a canonical mask (net.IPMask.Size)
OnesOfByte(m) == CHOOSE j \in 0..8 : m = 256 - Pow2(8 - j)
RECURSIVE MaskOnes(_)
MaskOnes(mask) ==
    IF mask = <<>> THEN 0 ELSE OnesOfByte(Head(mask)) + MaskOnes(Tail(mask))

\* net.IPNet.Contains
Contains(network, ip) ==
    LET x == IF To4(ip) # <<>> THEN To4(ip) ELSE ip
    IN  /\ Len(x) = Len(network.IP)
        /\ \A i \in 1..Len(x) :
              ByteAnd(network.IP[i], network.Mask[i]) = ByteAnd(x[i], network.Mask[i])

\* a model.IPRange as parseIPRange builds it from a feed line: the network
\* net.ParseCIDR returns (base address masked, 4 bytes for ipv4, 16 for
\* ipv6), the country of the line and the family
IPRange(ip, ones, cc, version) ==
    LET mask == CIDRMask(ones, 8 * Len(ip))
    IN  [Network |-> [IP |-> MaskIP(ip, mask), Mask |-> mask],
         CountryCode |-> cc,
         Version |-> version]

(***************************************************************************)
(* Strings the code formats and parses, as sequences of character codes.   *)
(***************************************************************************)
\* the characters of a country code
CountryChars(cc) ==
    CASE cc = "CA" -> <<67, 65>>
      [] cc = "US" -> <<85, 83>>
      [] cc = "ZZ" -> <<90, 90>>

\* one lower-case hexadecimal digit
HexDigit(d) == IF d < 10 THEN 48 + d ELSE 87 + d

\* net.IPMask.String: the hexadecimal form of the mask, no punctuation
RECURSIVE MaskString(_)
MaskString(mask) ==
    IF mask = <<>> THEN <<>>
    ELSE <<HexDigit(Head(mask) \div 16), HexDigit(Head(mask) % 16)>>
            \o MaskString(Tail(mask))

\* byte-wise lexicographic order of two strings
RECURSIVE LexLess(_, _)
LexLess(a, b) ==
    IF b = <<>> THEN FALSE
    ELSE IF a = <<>> THEN TRUE
    ELSE IF Head(a) # Head(b) THEN Head(a) < Head(b)
    ELSE LexLess(Tail(a), Tail(b))

\* net.dtoi: the decimal number at the start of s, the count of characters
\* it takes, and whether there is one (below 0xFFFFFF = 16777215)
RECURSIVE DtoiFrom(_, _, _)
DtoiFrom(s, i, n) ==
    IF i <= Len(s) /\ s[i] >= 48 /\ s[i] <= 57
    THEN LET n2 == n * 10 + (s[i] - 48)
         IN  IF n2 >= 16777215 THEN [n |-> 16777215, i |-> i - 1, ok |-> FALSE]
             ELSE DtoiFrom(s, i + 1, n2)
    ELSE IF i = 1 THEN [n |-> 0, i |-> 0, ok |-> FALSE]
    ELSE [n |-> n, i |-> i - 1, ok |-> TRUE]
Dtoi(s) == DtoiFrom(s, 1, 0)

\* net.ParseCIDR(ip.String() + "/" + mask) for a valid address ip: the text
\* after the slash must be a decimal prefix length for the address's family
ParseCIDR(ip, mask) ==
    LET x == IF To4(ip) # <<>> THEN To4(ip) ELSE ip
        d == Dtoi(mask)
        ok == d.ok /\ d.i = Len(mask) /\ d.n <= 8 * Len(x)
        m == CIDRMask(IF ok THEN d.n ELSE 0, 8 * Len(x))
    IN  [ok |-> ok, network |-> [IP |-> MaskIP(x, m), Mask |-> m]]

(***************************************************************************)
(* Redis: tier 2, the sorted set "ipranges".  An entry is a member (the    *)
(* text "<country>|<mask>") with its score; a member occurs once.          *)
(***************************************************************************)
\* ipToInt: the address as a big-endian 32-bit number, 0 when it is no IPv4
\* address (the model's addresses have a first octet below 128)
ipToInt(ip) ==
    LET x == To4(ip)
    IN  IF x = <<>> THEN 0
        ELSE x[1] * 16777216 + x[2] * 65536 + x[3] * 256 + x[4]

\* the member CacheIPRanges formats for a range
Member(ipRange) ==
    [CountryCode |-> ipRange.CountryCode, Mask |-> MaskString(ipRange.Network.Mask)]

\* the text of a member
MemberString(m) == CountryChars(m.CountryCode) \o <<124>> \o m.Mask

\* ZADD: the member's score is set, whether or not the member was there
ZAdd(zset, member, score) ==
    {e \in zset : e.Member # member} \cup {[Member |-> member, Score |-> score]}

\* the ZADDs of CacheIPRanges for the first n ranges, on an emptied key
RECURSIVE ZAddRanges(_, _)
ZAddRanges(ranges, n) ==
    IF n = 0 THEN {}
    ELSE ZAdd(ZAddRanges(ranges, n - 1), Member(ranges[n]),
              ipToInt(ranges[n].Network.IP))

\* CacheIPRanges when the pipeline executes: DEL, then one ZADD per range
CacheIPRanges(ranges) == ZAddRanges(ranges, Len(ranges))

\* ZREVRANGEBYSCORE ipranges max 0 LIMIT 0 1: the members with the greatest
\* score in 0..max, the lexicographically greatest of them first
ZRevRangeByScore(zset, max) ==
    LET in == {e \in zset : e.Score >= 0 /\ e.Score <= max}
        Before(a, b) == \/ a.Score > b.Score
                        \/ /\ a.Score = b.Score
                           /\ LexLess(MemberString(b.Member), MemberString(a.Member))
    IN  IF in = {} THEN <<>>
        ELSE <<(CHOOSE e \in in : \A f \in in \ {e} : Before(e, f)).Member>>

\* GetCachedRange once ZREVRANGEBYSCORE has answered
GetCachedRange(zset, ip) ==
    LET ranges == ZRevRangeByScore(zset, ipToInt(ip))
    IN  IF ranges = <<>> THEN [countryCode |-> NoCountry, err |-> Nil]
        ELSE LET cidr == ParseCIDR(ip, ranges[1].Mask)
             IN  IF ~cidr.ok
                 THEN [countryCode |-> NoCountry, err |-> "invalid CIDR address"]
                 ELSE IF Contains(cidr.network, ip)
                 THEN [countryCode |-> ranges[1].CountryCode, err |-> Nil]
                 ELSE [countryCode |-> NoCountry, err |-> Nil]

(***************************************************************************)
(* Postgres: the table ip_ranges, one row per network (unique index).      *)
(***************************************************************************)
\* the cidr value of a row: the text Network.String() gives, "<ip>/<ones>"
Cidr(network) == [IP |-> network.IP, Ones |-> MaskOnes(network.Mask)]

Row(ipRange) ==
    [network |-> Cidr(ipRange.Network),
     country_code |-> ipRange.CountryCode,
     ip_version |-> ipRange.Version]

\* INSERT ... ON CONFLICT (network) DO NOTHING
InsertOrSkip(rows, r) ==
    IF \E x \in rows : x.network = r.network THEN rows ELSE rows \cup {r}

\* INSERT ... ON CONFLICT (network) DO UPDATE
Upsert(rows, r) == {x \in rows : x.network # r.network} \cup {r}

\* SaveIPRanges when the transaction commits: the first n ranges upserted
RECURSIVE SaveRows(_, _, _)
SaveRows(rows, ranges, n) ==
    IF n = 0 THEN rows
    ELSE Upsert(SaveRows(rows, ranges, n - 1), Row(ranges[n]))
SaveIPRanges(rows, ranges) == SaveRows(rows, ranges, Len(ranges))

\* network >> ip: the network strictly contains the address (an address is
\* a network of full prefix length)
StrictlyContains(network, ip) ==
    LET x == IF To4(ip) # <<>> THEN To4(ip) ELSE ip
    IN  /\ Len(network.IP) = Len(x)
        /\ network.Ones < 8 * Len(x)
        /\ MaskIP(x, CIDRMask(network.Ones, 8 * Len(x))) = network.IP

\* ORDER BY network ASC: by family, then the common prefix bits, then the
\* prefix length, then the address
NetworkLess(a, b) ==
    IF Len(a.IP) # Len(b.IP) THEN Len(a.IP) < Len(b.IP)
    ELSE LET ones == IF a.Ones < b.Ones THEN a.Ones ELSE b.Ones
             m == CIDRMask(ones, 8 * Len(a.IP))
         IN  IF MaskIP(a.IP, m) # MaskIP(b.IP, m)
             THEN LexLess(MaskIP(a.IP, m), MaskIP(b.IP, m))
             ELSE IF a.Ones # b.Ones THEN a.Ones < b.Ones
             ELSE LexLess(a.IP, b.IP)

\* FindCountryForIP when the query runs: the first matching row, ZZ if none
FindCountryForIP(rows, ip) ==
    LET match == {r \in rows : StrictlyContains(r.network, ip)}
    IN  IF match = {} THEN ZZ
        ELSE (CHOOSE r \in match :
                 \A q \in match \ {r} : NetworkLess(r.network, q.network)).country_code

\* GetRangesCount
GetRangesCount(rows) == Cardinality(rows)

(***************************************************************************)
(* The feeds.  A fetch of one source either fails or yields the ranges of  *)
(* its lines.                                                              *)
(***************************************************************************)
\* 8.0.0.0/8 (ipv4, 16777216 addresses), US
R8US == IPRange(<<8, 0, 0, 0>>, 8, "US", 4)
\* 0.0.0.0/0 (ipv4, 4294967296 addresses), CA
R0CA == IPRange(<<0, 0, 0, 0>>, 0, "CA", 4)
\* 0.0.0.0/0 (ipv4, 4294967296 addresses), with country ZZ
R0ZZ == IPRange(<<0, 0, 0, 0>>, 0, "ZZ", 4)

\* what a successful FetchIPRanges may return for the i-th source: the
\* sources publish different blocks, and a feed may yield no range at all
FeedRanges(i) ==
    IF i % 2 = 1 THEN {<<>>, <<R8US>>} ELSE {<<R0CA>>, <<R0ZZ>>}

\* the tables a process may find at start
InitialStores == {{}, SaveIPRanges({}, <<R8US>>)}

(***************************************************************************)
(* The feed parser: the lines of a delegation file, the loop of            *)
(* fetchWithTimeout over them, parseIPRange and parseCIDR.                 *)
(***************************************************************************)
\* bound: the number of lines of a response body
MaxLines == 2

\* the text of a numeric field as strconv.ParseInt / Atoi read it: no
\* number, or the 64-bit number of magnitude hi * 65536 + lo
NotANumber == [ok |-> FALSE, neg |-> FALSE, hi |-> 0, lo |-> 0]
Num(hi, lo) == [ok |-> TRUE, neg |-> FALSE, hi |-> hi, lo |-> lo]
Minus(hi, lo) == [ok |-> TRUE, neg |-> TRUE, hi |-> hi, lo |-> lo]

\* a line of the file: whether it starts with '#', the number of fields
\* strings.Split(line, "|") gives (1 for the empty line, which has one
\* empty field), and the fields the loop reads
Line(cc, family, start, value, status) ==
    [hash |-> FALSE, empty |-> FALSE, nfields |-> 7, cc |-> cc,
     family |-> family, start |-> start, value |-> value, status |-> status]

\* the lines of the model's files
Lines ==
    { \* "", "#comment", the summary line "arin|*|ipv4|*|71533|summary"
      [Line("", "", "", NotANumber, "") EXCEPT !.empty = TRUE, !.nfields = 1],
      [Line("", "", "", NotANumber, "") EXCEPT !.hash = TRUE, !.nfields = 1],
      [Line("*", "ipv4", "*", Num(0, 6000), "") EXCEPT !.nfields = 6],
      \* skipped for the country, the status, the family
      Line("*", "ipv4", "8.0.0.0", Num(256, 0), "allocated"),
      Line("US", "ipv4", "8.0.0.0", Num(256, 0), "reserved"),
      Line("US", "asn", "8.0.0.0", Num(0, 1), "allocated"),
      \* 8.0.0.0/8, 8.8.8.0/24 from the start address 8.8.8.8, 2001:db8::/32
      Line("US", "ipv4", "8.0.0.0", Num(256, 0), "allocated"),
      Line("US", "ipv4", "8.8.8.8", Num(0, 256), "assigned"),
      Line("CA", "ipv6", "2001:db8::", Num(0, 32), "allocated"),
      \* counts 768, 0, -1, 2^33, 2^32 + 2^31, and one that is no number
      Line("US", "ipv4", "8.0.0.0", Num(0, 768), "allocated"),
      Line("US", "ipv4", "8.0.0.0", Num(0, 0), "allocated"),
      Line("US", "ipv4", "8.0.0.0", Minus(0, 1), "allocated"),
      Line("US", "ipv4", "8.0.0.0", Num(131072, 0), "allocated"),
      Line("US", "ipv4", "8.0.0.0", Num(98304, 0), "allocated"),
      Line("US", "ipv4", "8.0.0.0", NotANumber, "allocated"),
      \* an ipv6 prefix of 129, a start address that is none
      Line("CA", "ipv6", "2001:db8::", Num(0, 129), "allocated"),
      Line("US", "ipv4", "8.0.0", Num(0, 256), "allocated") }

\* floor(log2(n)) for n >= 1
RECURSIVE FloorLog2(_)
FloorLog2(n) == IF n <= 1 THEN 0 ELSE 1 + FloorLog2(n \div 2)

\* the value is zero
IsZero(value) == value.hi = 0 /\ value.lo = 0

\* the value is a power of two
IsPowerOfTwo(value) ==
    /\ ~value.neg
    /\ \/ value.hi = 0 /\ value.lo > 0 /\ Pow2(FloorLog2(value.lo)) = value.lo
       \/ value.lo = 0 /\ value.hi > 0 /\ Pow2(FloorLog2(value.hi)) = value.hi

\* a Go int: its sign and its magnitude, 65536 standing for every
\* magnitude above it
GoInt(n) ==
    IF n < 0 THEN [neg |-> TRUE, n |-> IF -n > 65536 THEN 65536 ELSE -n]
    ELSE [neg |-> FALSE, n |-> IF n > 65536 THEN 65536 ELSE n]

\* int(math.Log2(float64(value))): the logarithm truncated.  math.Log2 is
\* -Inf for 0 and NaN for a negative value, and the conversion of either
\* to int is implementation-dependent: the smallest int64 (amd64), the
\* greatest (mips64, riscv64 for NaN) or, for NaN, 0 (arm64, wasm)
MinInt64 == "MinInt64"
MaxInt64 == "MaxInt64"
Log2Int(value) ==
    IF IsZero(value) THEN {[big |-> MinInt64, n |-> 0], [big |-> MaxInt64, n |-> 0]}
    ELSE IF value.neg
    THEN {[big |-> MinInt64, n |-> 0], [big |-> MaxInt64, n |-> 0], [big |-> "", n |-> 0]}
    ELSE {[big |-> "", n |-> IF value.hi > 0 THEN 16 + FloorLog2(value.hi)
                             ELSE FloorLog2(value.lo)]}

\* 32 - x in 64-bit arithmetic: 32 - MinInt64 wraps to MinInt64 + 32 and
\* 32 - MaxInt64 is -(MaxInt64 - 32), both negative
Sub32(x) ==
    IF x.big # "" THEN [neg |-> TRUE, n |-> 65536] ELSE GoInt(32 - x.n)

\* strconv.Atoi of the field, for a number
Atoi(value) ==
    [neg |-> value.neg /\ ~IsZero(value),
     n |-> IF value.hi > 0 THEN 65536 ELSE value.lo]

\* the start address as net.ParseCIDR reads it: 4 bytes for an IPv4
\* address, 16 for an IPv6 address, <<>> for a text that is neither
StartIP(start) ==
    IF To4(ParseIP(start)) # <<>> THEN To4(ParseIP(start)) ELSE ParseIP(start)

\* parseCIDR: net.ParseCIDR(fmt.Sprintf("%s/%d", ip, prefixLen)) fails on
\* a text that is no address and on a prefix length that is negative or
\* greater than the address's number of bits; the network it returns has
\* the address masked
parseCIDR(start, prefixLen) ==
    LET ip == StartIP(start)
    IN  IF ip = <<>> \/ prefixLen.neg \/ prefixLen.n > 8 * Len(ip)
        THEN [err |-> TRUE, network |-> [IP |-> <<>>, Mask |-> <<>>]]
        ELSE LET mask == CIDRMask(prefixLen.n, 8 * Len(ip))
             IN  [err |-> FALSE, network |-> [IP |-> MaskIP(ip, mask), Mask |-> mask]]

\* prefixLen := 32 - int(math.Log2(float64(value))), every value the
\* conversion may give
PrefixLens(value) == {Sub32(x) : x \in Log2Int(value)}

\* what parseIPRange may return for the fields of a line whose family is
\* ipv4 or ipv6: an error, or the range
NoRange == [Network |-> [IP |-> <<>>, Mask |-> <<>>], CountryCode |-> "", Version |-> 0]
Parsed(line, version, prefixLen) ==
    LET n == parseCIDR(line.start, prefixLen)
    IN  IF n.err THEN [err |-> TRUE, ipRange |-> NoRange]
        ELSE [err |-> FALSE,
              ipRange |-> [Network |-> n.network, CountryCode |-> line.cc,
                           Version |-> version]]
parseIPRange(line) ==
    IF ~line.value.ok THEN {[err |-> TRUE, ipRange |-> NoRange]}
    ELSE IF line.family = "ipv4"
    THEN {Parsed(line, 4, prefixLen) : prefixLen \in PrefixLens(line.value)}
    ELSE {Parsed(line, 6, Atoi(line.value))}

\* a loop that reports a skipped line as a parse error
SkippedNever(line) == FALSE

\* the loop's tests of a line that make it a skipped one, in their order
Skipped(line) ==
    \/ line.hash \/ line.empty
    \/ line.nfields < 7
    \/ line.cc = "*" \/ (line.status # "allocated" /\ line.status # "assigned")
    \/ (line.family # "ipv4" /\ line.family # "ipv6")

\* the counters of RIRStats, all zero
NoStats == [IPv4Count |-> 0, IPv6Count |-> 0, SkippedCount |-> 0, ParseErrors |-> 0]

\* one iteration of the loop over the lines: the states it may leave
\* ranges and stats in
ScanLine(ranges, stats, line) ==
    IF Skipped(line)
    THEN {[ranges |-> ranges, stats |-> [stats EXCEPT !.SkippedCount = @ + 1]]}
    ELSE {IF r.err
          THEN [ranges |-> ranges, stats |-> [stats EXCEPT !.ParseErrors = @ + 1]]
          ELSE [ranges |-> Append(ranges, r.ipRange),
                stats |-> IF r.ipRange.Version = 4
                          THEN [stats EXCEPT !.IPv4Count = @ + 1]
                          ELSE [stats EXCEPT !.IPv6Count = @ + 1]] :
             r \in parseIPRange(line)}

(***************************************************************************)
(* State.                                                                  *)
(***************************************************************************)
\* the goroutines that call UpdateIPRanges: Start (the startup load) and the
\* ticker goroutine Start launches; "other" is one more goroutine calling
\* the exported method again and again, present in SpecCallers only
Callers == {"start", "ticker", "other"}
\* the request handlers running LookupIP
Lookups == {"l1"}

VARIABLES
    store,      \* Postgres: the rows of ip_ranges
    tier1,      \* Redis: the value of key "ip:<s>" per address string, "" if none
    tier2,      \* Redis: the sorted set "ipranges"
    updateMux,  \* IPService.updateMux: Free or the caller holding it
    upd,        \* per caller: where it is in Start / UpdateIPRanges, its locals
    lk,         \* per handler: where it is in LookupIP, its locals
    answered,   \* history, per address string: "unknown" once a lookup of it
                \* returned ZZ, "gained" once the store then gained a range
                \* containing it, "none" otherwise
    ft,         \* one call of RIRService.FetchIPRanges: where it is, its
                \* locals and those of its fetchWithTimeout
    tickC,      \* ticker.C, a channel of capacity 1: the number of ticks in it
    rp          \* one run of the repository and the range cache on their
                \* own: where it is, its inputs and the answers it got

\* the state of the service, which a fetch does not touch
service == <<store, tier1, tier2, updateMux, upd, lk, answered, tickC, rp>>

vars == <<store, tier1, tier2, updateMux, upd, lk, answered, ft, tickC, rp>>

\* the steps of UpdateIPRanges at which a caller holds updateMux
InCycle == {"FetchIPRanges", "ClearIPRanges", "SaveIPRanges", "CacheIPRanges", "Unlock"}

\* the locals of a caller outside UpdateIPRanges
UpdIdle(pc) ==
    [pc |-> pc, allRanges |-> <<>>, errors |-> 0, err |-> Nil, before |-> {},
     results |-> <<>>, cacheErr |-> Nil]

\* no response written yet
NoResponse == [status |-> 0, body |-> [message |-> ""]]

\* the locals of a handler between requests: those of IPService.LookupIP,
\* the route of the request and the response written
LkIdle ==
    [pc |-> "idle", ipStr |-> "", countryCode |-> NoCountry, err |-> Nil,
     got |-> NoCountry, calls |-> {}, failed |-> "", hit |-> "none",
     next |-> FALSE, route |-> "", response |-> NoResponse]

\* the locals of FetchIPRanges at its call: the caller's context (done or
\* not), the loop counter, the delays slept so far, lastErr; those of the
\* running fetchWithTimeout: the lines of the body it has read, their
\* number, ranges, stats, the error it returns; and ret, what fetchWithTimeout and then FetchIPRanges
\* returned (the ranges, the error and the error it wraps)
FtCall ==
    [pc |-> "loop", ctxDone |-> FALSE, attempt |-> 0, slept |-> <<>>,
     lastErr |-> Nil, body |-> <<>>, scanned |-> 0,
     ranges |-> <<>>, stats |-> NoStats, err |-> Nil,
     ret |-> [ranges |-> <<>>, err |-> Nil, cause |-> Nil]]

\* the run of the repository and the range cache before it starts: the
\* ranges of the cycle, the number of cycles run, the address asked for,
\* and what FindCountryForIP and GetCachedRange answered for it (after the
\* first cycle and now; NotAsked before the call)
NotAsked == "?"
NoAnswer == [countryCode |-> NotAsked, err |-> Nil]
RpIdle ==
    [pc |-> "off", ranges |-> <<>>, cycles |-> 0, ipStr |-> "",
     first |-> NotAsked, found |-> NotAsked, cached |-> NoAnswer]

\* the state after NewIPService, with the other caller at pc
InitWith(pc) ==
    /\ store \in InitialStores
    /\ tier1 = [s \in AddrStrings |-> NoCountry]
    /\ tier2 = {}
    /\ updateMux = Free
    /\ upd = [c \in Callers |->
                 UpdIdle(CASE c = "start" -> "Start"
                           [] c = "ticker" -> "off"
                           [] OTHER -> pc)]
    /\ lk = [l \in Lookups |-> LkIdle]
    /\ answered = [s \in AddrStrings |-> "none"]
    /\ ft = FtCall
    /\ tickC = 0
    /\ rp = RpIdle

Init == InitWith("off")

(***************************************************************************)
(* IPService.Start and the ticker goroutine.                               *)
(***************************************************************************)
\* a start that finds rows whatever the table holds
checkDataExistsAlways(rows) == TRUE

\* checkDataExists: count > 0
checkDataExists(rows) == GetRangesCount(rows) > 0

\* Start, up to its call of UpdateIPRanges or its return: the count query
\* fails (Start returns the error), finds rows (the ticker goroutine is
\* launched and Start returns nil) or finds none (initial load)
Start ==
    /\ upd["start"].pc = "Start"
    /\ \/ /\ upd' = [upd EXCEPT !["start"].pc = "failed"]
       \/ /\ checkDataExists(store)
          /\ upd' = [upd EXCEPT !["start"].pc = "started", !["ticker"].pc = "select"]
       \/ /\ ~checkDataExists(store)
          /\ upd' = [upd EXCEPT !["start"].pc = "Lock"]
    /\ UNCHANGED <<store, tier1, tier2, updateMux, lk, answered, ft, tickC, rp>>

\* the ticker goroutine's select receives from ticker.C, the tick the
\* channel holds or else one that fires now, and calls UpdateIPRanges
Tick ==
    /\ upd["ticker"].pc = "select"
    /\ upd' = [upd EXCEPT !["ticker"].pc = "Lock"]
    /\ tickC' = 0
    /\ UNCHANGED <<store, tier1, tier2, updateMux, lk, answered, ft, rp>>

\* the ticker fires while the goroutine is in UpdateIPRanges, not in its
\* select: the runtime's send on ticker.C does not block, the tick stays in
\* the channel if it is empty and is dropped if it is not
sendTime ==
    /\ upd["ticker"].pc \in {"Lock"} \cup InCycle
    /\ tickC = 0
    /\ tickC' = 1
    /\ UNCHANGED <<store, tier1, tier2, updateMux, upd, lk, answered, ft, rp>>

\* the ticker goroutine's select: the context is done (its owner cancelled
\* it) and the goroutine returns
TickerStop ==
    /\ upd["ticker"].pc = "select"
    /\ upd' = [upd EXCEPT !["ticker"].pc = "stopped"]
    /\ UNCHANGED <<store, tier1, tier2, updateMux, lk, answered, ft, tickC, rp>>

(***************************************************************************)
(* IPService.UpdateIPRanges.                                               *)
(***************************************************************************)
\* a lock that does not wait
CanLockAlways(mux) == TRUE

\* sync.Mutex: Lock returns only when the mutex is unlocked
CanLock(mux) == mux = Free

\* s.updateMux.Lock(), and the locals declared after it
Lock(c) ==
    /\ upd[c].pc = "Lock"
    /\ CanLock(updateMux)
    /\ updateMux' = c
    /\ upd' = [upd EXCEPT ![c] = [UpdIdle("FetchIPRanges") EXCEPT !.before = store]]
    /\ UNCHANGED <<store, tier1, tier2, lk, answered, ft, tickC, rp>>

\* the ranges of the last source only
AppendReplace(allRanges, ranges) == ranges

\* allRanges = append(allRanges, ranges...)
AppendRanges(allRanges, ranges) == allRanges \o ranges

\* what FetchIPRanges returned for one source: an error, or ranges
FetchFailed == [ok |-> FALSE, ranges |-> <<>>]
FetchOk(ranges) == [ok |-> TRUE, ranges |-> ranges]

\* the loop over config.RIRs up to source n: each fetch fails (recorded,
\* continue) or returns ranges (appended to allRanges); results lists
\* what each fetch returned
RECURSIVE Fetched(_)
Fetched(n) ==
    IF n = 0 THEN {[allRanges |-> <<>>, errors |-> 0, results |-> <<>>]}
    ELSE LET prev == Fetched(n - 1)
         IN  {[f EXCEPT !.errors = @ + 1,
                        !.results = Append(@, FetchFailed)] : f \in prev}
             \cup {[f EXCEPT !.allRanges = AppendRanges(@, ranges),
                             !.results = Append(@, FetchOk(ranges))] :
                      f \in prev, ranges \in FeedRanges(n)}

\* a cycle that goes on with whatever it has
NoneFetchedNever(allRanges) == FALSE

\* len(allRanges) == 0
NoneFetched(allRanges) == Len(allRanges) = 0

\* the loop over the sources (it touches nothing shared), then the check
\* that any range was fetched
FetchIPRanges(c) ==
    /\ upd[c].pc = "FetchIPRanges"
    /\ \E f \in Fetched(NumRIRs) :
          IF NoneFetched(f.allRanges)
          THEN upd' = [upd EXCEPT ![c].pc = "Unlock",
                                  ![c].errors = f.errors,
                                  ![c].results = f.results,
                                  ![c].err = "no IP ranges fetched"]
          ELSE upd' = [upd EXCEPT ![c].pc = "ClearIPRanges",
                                  ![c].errors = f.errors,
                                  ![c].results = f.results,
                                  ![c].allRanges = f.allRanges]
    /\ UNCHANGED <<store, tier1, tier2, updateMux, lk, answered, ft, tickC, rp>>

\* the countries of the rows whose network contains the address (the
\* address itself included)
Owners(rows, ip) ==
    LET x == IF To4(ip) # <<>> THEN To4(ip) ELSE ip
    IN  {r.country_code : r \in
            {q \in rows : /\ Len(q.network.IP) = Len(x)
                          /\ MaskIP(x, CIDRMask(q.network.Ones, 8 * Len(x)))
                                = q.network.IP}}

\* history kept with a step that writes the table: an address answered
\* unknown whose owners the table now holds has gained a range; a lookup
\* running across the write is not the lookup after it
StoreChanged ==
    /\ answered' = [s \in AddrStrings |->
          IF answered[s] = "none" THEN "none"
          ELSE IF Owners(store', ParseIP(s)) \ {ZZ} # {} THEN "gained"
          ELSE "unknown"]
    /\ lk' = [l \in Lookups |-> [lk[l] EXCEPT !.next = FALSE]]

\* a TRUNCATE that spares a table of one row
TruncateUnlessSingle(rows) == IF Cardinality(rows) = 1 THEN rows ELSE {}

\* TRUNCATE TABLE ip_ranges
Truncate(rows) == {}

\* s.repo.ClearIPRanges: TRUNCATE TABLE ip_ranges, or an error
ClearIPRanges(c) ==
    /\ upd[c].pc = "ClearIPRanges"
    /\ \/ /\ store' = Truncate(store)
          /\ upd' = [upd EXCEPT ![c].pc = "SaveIPRanges", ![c].results = <<>>]
       \/ /\ store' = store
          /\ upd' = [upd EXCEPT ![c].pc = "Unlock", ![c].allRanges = <<>>,
                                ![c].results = <<>>,
                                ![c].err = "clearing existing IP ranges"]
    /\ StoreChanged
    /\ UNCHANGED <<tier1, tier2, updateMux, ft, tickC, rp>>

\* s.repo.SaveIPRanges: the transaction commits, or it is rolled back and
\* the error returned
SaveIPRangesStep(c) ==
    /\ upd[c].pc = "SaveIPRanges"
    /\ \/ /\ store' = SaveIPRanges(store, upd[c].allRanges)
          /\ upd' = [upd EXCEPT ![c].pc = "CacheIPRanges", ![c].before = {}]
       \/ /\ store' = store
          /\ upd' = [upd EXCEPT ![c].pc = "Unlock", ![c].allRanges = <<>>,
                                ![c].err = "save failed"]
    /\ StoreChanged
    /\ UNCHANGED <<tier1, tier2, updateMux, ft, tickC, rp>>

\* the Redis keys: "ip:<s>" for an address string, "ipranges"
CountryKey(s) == <<"ip:", s>>
RangesKey == <<"ipranges">>

\* a DEL that removes every key
DelAll(countries, key) == [s \in DOMAIN countries |-> NoCountry]

\* DEL key, as the "ip:" keys see it
Del(countries, key) ==
    [s \in DOMAIN countries |->
        IF CountryKey(s) = key THEN NoCountry ELSE countries[s]]

\* a cycle that returns the cache's error
CycleErrReturned(cacheErr) == cacheErr

\* what UpdateIPRanges returns when CacheIPRanges returned cacheErr: the
\* error is logged ("Don't return error as database update was successful")
CycleErr(cacheErr) == Nil

\* s.cache.CacheIPRanges: the pipeline executes, or it fails after some of
\* its commands (none, DEL, DEL and the first ZADDs) took effect
CacheIPRangesStep(c) ==
    /\ upd[c].pc = "CacheIPRanges"
    /\ \E cacheErr \in {Nil, "redis error"} :
          /\ IF cacheErr = Nil
             THEN /\ tier2' = CacheIPRanges(upd[c].allRanges)
                  /\ tier1' = Del(tier1, RangesKey)
             ELSE \/ /\ tier2' = tier2
                     /\ tier1' = tier1
                  \/ /\ \E n \in 0..(Len(upd[c].allRanges) - 1) :
                           tier2' = ZAddRanges(upd[c].allRanges, n)
                     /\ tier1' = Del(tier1, RangesKey)
          /\ upd' = [upd EXCEPT ![c].pc = "Unlock", ![c].allRanges = <<>>,
                                ![c].cacheErr = cacheErr,
                                ![c].err = CycleErr(cacheErr)]
    /\ UNCHANGED <<store, updateMux, lk, answered, ft, tickC, rp>>

\* an Unlock on the successful path only
ReleasedOnSuccess(c, err) == IF err = Nil THEN Free ELSE c

\* the mutex after the deferred Unlock, whatever UpdateIPRanges returns
Released(c, err) == Free

\* the deferred s.updateMux.Unlock() and the return to the caller: Start
\* returns the error of a failed initial load, else launches the ticker
\* goroutine; the ticker goroutine logs an error and selects again
Unlock(c) ==
    /\ upd[c].pc = "Unlock"
    /\ updateMux' = Released(c, upd[c].err)
    /\ upd' = CASE c = "start" /\ upd[c].err # Nil ->
                     [upd EXCEPT !["start"] = UpdIdle("failed")]
                [] c = "start" /\ upd[c].err = Nil ->
                     [upd EXCEPT !["start"] = UpdIdle("started"),
                                 !["ticker"].pc = "select"]
                [] c = "ticker" -> [upd EXCEPT !["ticker"] = UpdIdle("select")]
                [] OTHER -> [upd EXCEPT ![c] = UpdIdle("Lock")]
    /\ UNCHANGED <<store, tier1, tier2, lk, answered, ft, tickC, rp>>

(***************************************************************************)
(* IPService.LookupIP.                                                     *)
(***************************************************************************)
\* a LookupIP that locks updateMux on entry
MayLookupUnlocked(mux) == mux = Free

\* what LookupIP waits for on entry: nothing, it takes no lock
MayLookup(mux) == TRUE

\* GET /api/v1/lookup/<s>: Handler.LookupIP calls IPService.LookupIP(ctx, s)
LookupIP(l, s) ==
    /\ lk[l].pc = "idle"
    /\ MayLookup(updateMux)
    /\ lk' = [lk EXCEPT ![l] = [LkIdle EXCEPT
                 !.pc = "GetCountry", !.ipStr = s, !.route = "lookup",
                 !.next = (answered[s] = "gained")]]
    /\ UNCHANGED <<store, tier1, tier2, updateMux, upd, answered, ft, tickC, rp>>

\* a tier-1 test that never takes the cached value
Tier1HitNever(countryCode, err) == FALSE

\* the test of what GetCountry returned (tier 1)
Tier1Hit(countryCode, err) == err = Nil /\ countryCode # NoCountry

\* a tier-2 test that never takes the cached value
Tier2HitNever(countryCode, err) == FALSE

\* the test of what GetCachedRange returned (tier 2)
Tier2Hit(countryCode, err) == err = Nil /\ countryCode # NoCountry

\* a missing nil test
InvalidIPNever(ip) == FALSE

\* the test of what net.ParseIP returned
InvalidIP(ip) == ip = <<>>

\* a missing test for the unknown country
CacheableAlways(countryCode) == TRUE

\* whether LookupIP writes the store's answer to tier 1
Cacheable(countryCode) == countryCode # ZZ

\* every error returned to the caller
SurfacedAll(call, err) == err

\* the error LookupIP returns when a call returns err: the store's; an
\* error of the cache is logged or taken as a miss
Surfaced(call, err) == IF call = "FindCountryForIP" THEN err ELSE Nil

\* the handler's locals after a call that returned err
Called(me, call, err) ==
    [me EXCEPT !.calls = @ \cup {call},
               !.failed = IF err = Nil THEN @ ELSE call,
               !.err = Surfaced(call, err),
               !.pc = IF Surfaced(call, err) = Nil THEN @ ELSE "done"]

\* s.cache.GetCountry, then net.ParseIP on a miss: GET answers the value,
\* "" for no key, or fails
GetCountry(l) ==
    /\ lk[l].pc = "GetCountry"
    /\ \E err \in {Nil, "redis error"} :
          LET countryCode == IF err = Nil THEN tier1[lk[l].ipStr] ELSE NoCountry
              me == [Called(lk[l], "GetCountry", err) EXCEPT !.got = countryCode]
          IN  lk' = [lk EXCEPT ![l] =
                IF me.pc = "done" THEN me
                ELSE IF Tier1Hit(countryCode, err)
                THEN [me EXCEPT !.pc = "done", !.countryCode = countryCode,
                                !.hit = "tier1"]
                ELSE IF InvalidIP(ParseIP(lk[l].ipStr))
                THEN [me EXCEPT !.pc = "done", !.err = "invalid IP address"]
                ELSE [me EXCEPT !.pc = "GetCachedRange"]]
    /\ UNCHANGED <<store, tier1, tier2, updateMux, upd, answered, ft, tickC, rp>>

\* s.cache.GetCachedRange: ZREVRANGEBYSCORE fails, or answers
GetCachedRangeStep(l) ==
    /\ lk[l].pc = "GetCachedRange"
    /\ LET After(r) ==
              LET me == Called(lk[l], "GetCachedRange", r.err)
              IN  IF me.pc = "done" THEN me
                  ELSE IF Tier2Hit(r.countryCode, r.err)
                  THEN [me EXCEPT !.pc = "SetCountry",
                                  !.countryCode = r.countryCode, !.hit = "tier2"]
                  ELSE [me EXCEPT !.pc = "FindCountryForIP"]
       IN  \/ lk' = [lk EXCEPT ![l] =
                        After([countryCode |-> NoCountry, err |-> "redis error"])]
           \/ lk' = [lk EXCEPT ![l] =
                        After(GetCachedRange(tier2, ParseIP(lk[l].ipStr)))]
    /\ UNCHANGED <<store, tier1, tier2, updateMux, upd, answered, ft, tickC, rp>>

\* s.repo.FindCountryForIP: the query fails (the error is returned) or
\* answers
FindCountryForIPStep(l) ==
    /\ lk[l].pc = "FindCountryForIP"
    /\ \E err \in {Nil, "db error"} :
          LET countryCode == FindCountryForIP(store, ParseIP(lk[l].ipStr))
              me == Called(lk[l], "FindCountryForIP", err)
          IN  lk' = [lk EXCEPT ![l] =
                IF me.pc = "done" THEN me
                ELSE [me EXCEPT !.pc = IF Cacheable(countryCode)
                                       THEN "SetCountry" ELSE "done",
                                !.countryCode = countryCode,
                                !.hit = "store"]]
    /\ UNCHANGED <<store, tier1, tier2, updateMux, upd, answered, ft, tickC, rp>>

\* s.cache.SetCountry (after a tier-2 hit or a store answer): SET writes
\* the key, or fails; a failure is logged and the answer returned
SetCountry(l) ==
    /\ lk[l].pc = "SetCountry"
    /\ \E err \in {Nil, "redis error"} :
          /\ tier1' = IF err # Nil THEN tier1
                      ELSE [tier1 EXCEPT ![lk[l].ipStr] = lk[l].countryCode]
          /\ lk' = [lk EXCEPT ![l] =
                       [Called(lk[l], "SetCountry", err) EXCEPT !.pc = "done"]]
    /\ UNCHANGED <<store, tier2, updateMux, upd, answered, ft, tickC, rp>>

\* fiber's status codes
StatusOK == 200
StatusBadRequest == 400
StatusNotFound == 404
StatusInternalServerError == 500

\* a handler that takes every country for a found one
NotFoundNever(countryCode) == FALSE

\* result.CountryCode == "ZZ"
NotFound(countryCode) == countryCode = ZZ

\* strings.Contains(err.Error(), "invalid IP address"); the text of a
\* store error does not hold these words
IsInvalidIP(err) == err = "invalid IP address"

\* the response Handler.LookupIP writes for what IPService.LookupIP
\* returned
Response(ipStr, countryCode, err) ==
    IF err # Nil
    THEN IF IsInvalidIP(err)
         THEN [status |-> StatusBadRequest,
               body |-> [message |-> "Invalid IP address format"]]
         ELSE [status |-> StatusInternalServerError,
               body |-> [message |-> "Failed to lookup IP address"]]
    ELSE IF NotFound(countryCode)
    THEN [status |-> StatusNotFound,
          body |-> [message |-> "No country information found for this IP"]]
    ELSE [status |-> StatusOK,
          body |-> [ip |-> ipStr, country_code |-> countryCode]]

\* IPService.LookupIP has returned and Handler.LookupIP writes the response
Respond(l) ==
    /\ lk[l].pc = "done"
    /\ lk' = [lk EXCEPT ![l].pc = "responded",
                        ![l].response =
                           Response(lk[l].ipStr, lk[l].countryCode, lk[l].err)]
    /\ UNCHANGED <<store, tier1, tier2, updateMux, upd, answered, ft, tickC, rp>>

\* GET /api/v1/health: Handler.HealthCheck writes its response
HealthCheck(l) ==
    /\ lk[l].pc = "idle"
    /\ lk' = [lk EXCEPT ![l] = [LkIdle EXCEPT
                 !.pc = "responded", !.route = "health",
                 !.response = [status |-> StatusOK,
                               body |-> [status |-> "healthy"]]]]
    /\ UNCHANGED <<store, tier1, tier2, updateMux, upd, answered, ft, tickC, rp>>

\* the handler returns: the request is over
Return(l) ==
    /\ lk[l].pc = "responded"
    /\ lk' = [lk EXCEPT ![l] = LkIdle]
    /\ answered' =
          IF lk[l].route = "health" THEN answered
          ELSE [answered EXCEPT ![lk[l].ipStr] =
                   IF lk[l].err = Nil /\ lk[l].countryCode = ZZ
                   THEN "unknown" ELSE "none"]
    /\ UNCHANGED <<store, tier1, tier2, updateMux, upd, ft, tickC, rp>>

(***************************************************************************)
(* Redis expiry: both tiers are written with a 24-hour time to live.       *)
(***************************************************************************)
ExpireCountry(s) ==
    /\ tier1[s] # NoCountry
    /\ tier1' = [tier1 EXCEPT ![s] = NoCountry]
    /\ UNCHANGED <<store, tier2, updateMux, upd, lk, answered, ft, tickC, rp>>

ExpireRanges ==
    /\ tier2 # {}
    /\ tier2' = {}
    /\ UNCHANGED <<store, tier1, updateMux, upd, lk, answered, ft, tickC, rp>>

(***************************************************************************)
(* The specification.                                                      *)
(***************************************************************************)
\* the service with its handlers.  The ticks that fire during a run are
\* left to SpecCallers: a tick held in ticker.C does nothing but enable
\* Tick in the goroutine's next select, where Tick is enabled without it
Next ==
    \/ Start
    \/ Tick
    \/ TickerStop
    \/ \E c \in Callers : Lock(c)
    \/ \E c \in Callers : FetchIPRanges(c)
    \/ \E c \in Callers : ClearIPRanges(c)
    \/ \E c \in Callers : SaveIPRangesStep(c)
    \/ \E c \in Callers : CacheIPRangesStep(c)
    \/ \E c \in Callers : Unlock(c)
    \/ \E l \in Lookups, s \in AddrStrings : LookupIP(l, s)
    \/ \E l \in Lookups : GetCountry(l)
    \/ \E l \in Lookups : GetCachedRangeStep(l)
    \/ \E l \in Lookups : FindCountryForIPStep(l)
    \/ \E l \in Lookups : SetCountry(l)
    \/ \E l \in Lookups : Respond(l)
    \/ \E l \in Lookups : HealthCheck(l)
    \/ \E l \in Lookups : Return(l)
    \/ \E s \in AddrStrings : ExpireCountry(s)
    \/ ExpireRanges

Spec == Init /\ [][Next]_vars

\* the refresh callers alone, with one more goroutine calling
\* UpdateIPRanges and with the ticks that fire during a run
InitCallers == InitWith("Lock")

NextCallers ==
    \/ Start
    \/ Tick
    \/ sendTime
    \/ TickerStop
    \/ \E c \in Callers : Lock(c)
    \/ \E c \in Callers : FetchIPRanges(c)
    \/ \E c \in Callers : ClearIPRanges(c)
    \/ \E c \in Callers : SaveIPRangesStep(c)
    \/ \E c \in Callers : CacheIPRangesStep(c)
    \/ \E c \in Callers : Unlock(c)

SpecCallers == InitCallers /\ [][NextCallers]_vars

\* the refresh callers when every call a cycle makes returns: the fetches,
\* the calls of the store and of the cache, and the deferred Unlock
CallsReturn ==
    \A c \in Callers :
       /\ WF_vars(FetchIPRanges(c))
       /\ WF_vars(ClearIPRanges(c))
       /\ WF_vars(SaveIPRangesStep(c))
       /\ WF_vars(CacheIPRangesStep(c))
       /\ WF_vars(Unlock(c))

SpecReturning == InitCallers /\ [][NextCallers]_vars /\ CallsReturn

(***************************************************************************)
(* RIRService.FetchIPRanges: the retry loop and fetchWithTimeout.          *)
(***************************************************************************)
\* maxRetries := 3
maxRetries == 3
\* the unit of the delay, in seconds: 5 * time.Second
DelayUnit == 5

\* the same delay before every retry
DelayFlat(attempt) == DelayUnit

\* delay := time.Duration(attempt) * 5 * time.Second
Delay(attempt) == attempt * DelayUnit

\* ranges a failed attempt keeps
FailedAttemptRangesKept(ranges) == ranges

\* the ranges fetchWithTimeout returns with an error: nil
FailedAttemptRanges(ranges) == <<>>

\* the caller cancels the context of the call
Cancel ==
    /\ ft.pc # "returned"
    /\ ~ft.ctxDone
    /\ ft' = [ft EXCEPT !.ctxDone = TRUE]
    /\ UNCHANGED service

\* the head of an iteration after the first: time.Sleep(delay), which
\* returns when the delay has passed whatever the context
Sleep ==
    /\ ft.pc = "loop"
    /\ ft.attempt > 0
    /\ ft.attempt < maxRetries
    /\ ft' = [ft EXCEPT !.pc = "fetchWithTimeout",
                        !.slept = Append(@, Delay(ft.attempt))]
    /\ UNCHANGED service

\* what fetchWithTimeout returns to the loop
Returned(me, ranges, err) ==
    [me EXCEPT !.pc = "fetched", !.err = err,
               !.ret = [ranges |-> IF err = Nil THEN ranges
                                   ELSE FailedAttemptRanges(ranges),
                        err |-> err, cause |-> Nil]]

\* fetchWithTimeout up to its loop over the lines: the request fails (as
\* it does when the context is done), the status is not 200, or the
\* response is there to be read
fetchWithTimeout ==
    /\ \/ ft.pc = "fetchWithTimeout"
       \/ ft.pc = "loop" /\ ft.attempt = 0
    /\ LET me == [ft EXCEPT !.body = <<>>, !.scanned = 0,
                            !.ranges = <<>>, !.stats = NoStats]
       IN  \/ ft' = Returned(me, <<>>, "fetching RIR data")
           \/ /\ ~ft.ctxDone
              /\ ft' = Returned(me, <<>>, "unexpected status code")
           \/ /\ ~ft.ctxDone
              /\ ft' = [me EXCEPT !.pc = "Scan"]
    /\ UNCHANGED service

\* scanner.Scan() returns the next line of the body and the loop
\* classifies it
Scan ==
    /\ ft.pc = "Scan"
    /\ ft.scanned < MaxLines
    /\ \E line \in Lines :
          \E r \in ScanLine(ft.ranges, ft.stats, line) :
             ft' = [ft EXCEPT !.body = Append(@, line), !.scanned = @ + 1,
                              !.ranges = r.ranges, !.stats = r.stats]
    /\ UNCHANGED service

\* scanner.Scan() returns false with an error: a line longer than the
\* buffer, a failed read, a read cut by the context
ScanErr ==
    /\ ft.pc = "Scan"
    /\ ft' = Returned(ft, ft.ranges, "reading RIR data")
    /\ UNCHANGED service

\* scanner.Scan() returns false at the end of the body
ScanEnd ==
    /\ ft.pc = "Scan"
    /\ ft' = Returned(ft, ft.ranges, Nil)
    /\ UNCHANGED service

\* the loop's test of what fetchWithTimeout returned: the ranges are
\* returned, or the error is kept and logged and the loop goes on
AttemptDone ==
    /\ ft.pc = "fetched"
    /\ IF ft.ret.err = Nil
       THEN ft' = [ft EXCEPT !.pc = "returned"]
       ELSE ft' = [ft EXCEPT !.pc = "loop", !.lastErr = ft.ret.err,
                             !.attempt = @ + 1]
    /\ UNCHANGED service

\* the loop ends: return nil, stats, "failed after 3 attempts: lastErr"
Exhausted ==
    /\ ft.pc = "loop"
    /\ ft.attempt >= maxRetries
    /\ ft' = [ft EXCEPT !.pc = "returned",
                        !.ret = [ranges |-> <<>>, err |-> "failed after attempts",
                                 cause |-> ft.lastErr]]
    /\ UNCHANGED service

\* a call of FetchIPRanges on its own
InitFetch == InitWith("off") /\ store = {}

NextFetch ==
    \/ Cancel
    \/ Sleep
    \/ fetchWithTimeout
    \/ Scan
    \/ ScanErr
    \/ ScanEnd
    \/ AttemptDone
    \/ Exhausted

SpecFetch == InitFetch /\ [][NextFetch]_vars

(***************************************************************************)
(* The repository and the range cache on their own: cycles of              *)
(* ClearIPRanges, SaveIPRanges and CacheIPRanges over one aggregated set,  *)
(* each followed by FindCountryForIP and GetCachedRange for one address.   *)
(***************************************************************************)
\* the longest aggregated set
MaxRanges == 3

\* 9.0.0.0/8, US: the country and the mask of R8US
R9US == IPRange(<<9, 0, 0, 0>>, 8, "US", 4)
\* 8.0.0.0/8, CA: the network of R8US
R8CA == IPRange(<<8, 0, 0, 0>>, 8, "CA", 4)
\* 8.8.8.0/24, CA: nested in R8US
R888CA == IPRange(<<8, 8, 8, 0>>, 24, "CA", 4)
\* 2001:db8::/32 (ipv6), US
R6US == IPRange(ParseIP("2001:db8::"), 32, "US", 6)

\* the ranges the feeds of the run hold
RepoRanges == {R8US, R9US, R8CA, R888CA, R0CA, R6US}

\* the aggregated sets of n ranges
RECURSIVE RangeSeqs(_)
RangeSeqs(n) ==
    IF n = 0 THEN {<<>>}
    ELSE {Append(q, r) : q \in RangeSeqs(n - 1), r \in RepoRanges}

\* the aggregated sets a cycle goes on with: at least one range
AllRanges == UNION {RangeSeqs(n) : n \in 1..MaxRanges}

\* the addresses asked for
RepoAddrs == {"8.8.8.8", "9.9.9.9", "2001:db8::1"}

\* the sorted sets a process may find at start
InitialCaches == {{}, CacheIPRanges(<<R0ZZ>>)}

\* s.repo.ClearIPRanges
RepoClear ==
    /\ rp.pc = "ClearIPRanges"
    /\ store' = Truncate(store)
    /\ rp' = [rp EXCEPT !.pc = "SaveIPRanges"]
    /\ UNCHANGED <<tier1, tier2, updateMux, upd, lk, answered, ft, tickC>>

\* s.repo.SaveIPRanges
RepoSave ==
    /\ rp.pc = "SaveIPRanges"
    /\ store' = SaveIPRanges(store, rp.ranges)
    /\ rp' = [rp EXCEPT !.pc = "CacheIPRanges"]
    /\ UNCHANGED <<tier1, tier2, updateMux, upd, lk, answered, ft, tickC>>

\* s.cache.CacheIPRanges, and the cycle returns
RepoCache ==
    /\ rp.pc = "CacheIPRanges"
    /\ tier2' = CacheIPRanges(rp.ranges)
    /\ tier1' = Del(tier1, RangesKey)
    /\ rp' = [rp EXCEPT !.pc = "returned", !.cycles = @ + 1]
    /\ UNCHANGED <<store, updateMux, upd, lk, answered, ft, tickC>>

\* s.repo.FindCountryForIP for the address
RepoFind ==
    /\ rp.pc = "returned"
    /\ rp.found = NotAsked
    /\ rp' = [rp EXCEPT !.found = FindCountryForIP(store, ParseIP(rp.ipStr))]
    /\ UNCHANGED <<store, tier1, tier2, updateMux, upd, lk, answered, ft, tickC>>

\* s.cache.GetCachedRange for the address
RepoGetCached ==
    /\ rp.pc = "returned"
    /\ rp.cached = NoAnswer
    /\ rp' = [rp EXCEPT !.cached = GetCachedRange(tier2, ParseIP(rp.ipStr))]
    /\ UNCHANGED <<store, tier1, tier2, updateMux, upd, lk, answered, ft, tickC>>

\* the next cycle, with the feeds unchanged
RepoAgain ==
    /\ rp.pc = "returned"
    /\ rp.cycles = 1
    /\ rp.found # NotAsked
    /\ rp' = [rp EXCEPT !.pc = "ClearIPRanges", !.first = rp.found,
                        !.found = NotAsked, !.cached = NoAnswer]
    /\ UNCHANGED <<store, tier1, tier2, updateMux, upd, lk, answered, ft, tickC>>

InitRepo ==
    /\ store \in InitialStores
    /\ tier1 = [s \in AddrStrings |-> NoCountry]
    /\ tier2 \in InitialCaches
    /\ updateMux = Free
    /\ upd = [c \in Callers |-> UpdIdle("off")]
    /\ lk = [l \in Lookups |-> LkIdle]
    /\ answered = [s \in AddrStrings |-> "none"]
    /\ ft = FtCall
    /\ tickC = 0
    /\ \E ranges \in AllRanges, s \in RepoAddrs :
          rp = [RpIdle EXCEPT !.pc = "ClearIPRanges", !.ranges = ranges,
                              !.ipStr = s]

NextRepo ==
    \/ RepoClear
    \/ RepoSave
    \/ RepoCache
    \/ RepoFind
    \/ RepoGetCached
    \/ RepoAgain

SpecRepo == InitRepo /\ [][NextRepo]_vars

(***************************************************************************)
(* Properties.                                                             *)
(***************************************************************************)
\* the address a handler is looking up
IPOf(l) == ParseIP(lk[l].ipStr)

\* C1: a refresh that returns an error leaves in the store exactly the rows
\* it held when the cycle started
C1_FailedRefreshKeepsData ==
    \A c \in Callers :
       (upd[c].pc = "Unlock" /\ upd[c].err # Nil) => store = upd[c].before

\* C2: while a refresh is between fetching and the end of saving, a store
\* query for an address that the old rows and the new ranges give the same
\* country never answers ZZ
C2_LookupSeesOldOrNew ==
    [][\A l \in Lookups, c \in Callers :
          LET old == FindCountryForIP(upd[c].before, IPOf(l))
              new == FindCountryForIP(SaveIPRanges({}, upd[c].allRanges), IPOf(l))
          IN  (/\ lk[l].pc = "FindCountryForIP"
               /\ lk'[l].pc # "FindCountryForIP"
               /\ lk'[l].failed # "FindCountryForIP"
               /\ upd[c].pc \in {"ClearIPRanges", "SaveIPRanges"}
               /\ old = new
               /\ old # ZZ)
              => lk'[l].countryCode # ZZ]_vars

\* C3: at most one caller is between Lock and Unlock, and it is the one
\* the mutex names
C3_OneRefreshAtATime ==
    /\ Cardinality({c \in Callers : upd[c].pc \in InCycle}) <= 1
    /\ \A c \in Callers : upd[c].pc \in InCycle <=> updateMux = c

\* C3 witness: the scheduled refresh is saving while another caller waits
\* for the mutex
C3_Witness ==
    /\ upd["ticker"].pc = "SaveIPRanges"
    /\ updateMux = "ticker"
    /\ upd["other"].pc = "Lock"

\* C4: a tier-1 read that finds a country C for the address string (and
\* does not fail) ends the lookup: it returns C with no error, having made
\* no other call, and writes neither cache tier
C4_Tier1HitReturnsImmediately ==
    [][\A l \in Lookups :
          (/\ lk[l].pc = "GetCountry"
           /\ lk'[l].pc # "GetCountry"
           /\ lk'[l].failed # "GetCountry"
           /\ tier1[lk[l].ipStr] # NoCountry)
          => /\ lk'[l].pc = "done"
             /\ lk'[l].countryCode = tier1[lk[l].ipStr]
             /\ lk'[l].err = Nil
             /\ lk'[l].calls = {"GetCountry"}
             /\ UNCHANGED <<store, tier1, tier2>>]_vars

\* C4 witness: a lookup answered from tier 1, the entry still there
C4_Witness ==
    \E l \in Lookups :
       /\ lk[l].pc = "done"
       /\ lk[l].hit = "tier1"
       /\ lk[l].countryCode = "US"
       /\ tier1[lk[l].ipStr] = "US"

\* C5: no address string that does not parse has a tier-1 entry, and a
\* lookup of one ends after the tier-1 read with the error, having called
\* neither GetCachedRange, FindCountryForIP nor SetCountry
C5_InvalidAddressIsTerminal ==
    /\ \A s \in AddrStrings : ParseIP(s) = <<>> => tier1[s] = NoCountry
    /\ \A l \in Lookups :
          (lk[l].route = "lookup" /\ IPOf(l) = <<>>)
          => \/ lk[l].pc = "GetCountry"
             \/ /\ lk[l].pc \in {"done", "responded"}
                /\ lk[l].err = "invalid IP address"
                /\ lk[l].countryCode = NoCountry
                /\ lk[l].calls = {"GetCountry"}

\* C5 witness: a lookup of "invalid" has returned the error
C5_Witness ==
    \E l \in Lookups :
       /\ lk[l].pc = "done"
       /\ lk[l].ipStr = "invalid"
       /\ lk[l].err = "invalid IP address"

\* C6: a store query that answers ZZ ends the lookup: it returns ZZ with
\* no error and leaves both cache tiers as they are
C6_UnknownIsNotWritten ==
    [][\A l \in Lookups :
          (/\ lk[l].pc = "FindCountryForIP"
           /\ lk'[l].pc # "FindCountryForIP"
           /\ lk'[l].failed # "FindCountryForIP"
           /\ FindCountryForIP(store, IPOf(l)) = ZZ)
          => /\ lk'[l].pc = "done"
             /\ lk'[l].countryCode = ZZ
             /\ lk'[l].err = Nil
             /\ "SetCountry" \notin lk'[l].calls
             /\ UNCHANGED <<tier1, tier2>>]_vars

\* C6 witness: with both tiers empty and no row containing the address, a
\* lookup has returned ZZ and tier 1 is still empty
C6_Witness ==
    \E l \in Lookups :
       /\ lk[l].pc = "done"
       /\ lk[l].hit = "store"
       /\ lk[l].countryCode = ZZ
       /\ Owners(store, IPOf(l)) = {}
       /\ tier2 = {}
       /\ \A s \in AddrStrings : tier1[s] = NoCountry

\* C7: no tier-1 entry and no tier-2 member carries ZZ
C7_SentinelNeverCached ==
    /\ \A s \in AddrStrings : tier1[s] # ZZ
    /\ \A e \in tier2 : e.Member.CountryCode # ZZ

\* C8: the next lookup of an address that was answered unknown, made after
\* the store gained rows containing the address, none of them a ZZ row (the
\* store not written during the lookup), does not return unknown
C8_NoStaleUnknown ==
    \A l \in Lookups :
       (/\ lk[l].pc = "done"
        /\ lk[l].next
        /\ lk[l].err = Nil
        /\ Owners(store, IPOf(l)) # {}
        /\ ZZ \notin Owners(store, IPOf(l)))
       => lk[l].countryCode # ZZ

\* C9: a tier-2 read that finds a country C sends the lookup to the tier-1
\* write with C; that write, failed or not, ends the lookup, which returns
\* C with no error and without a store query; the write that does not fail
\* sets the address string's entry to C
C9_Tier2HitWritesThrough ==
    [][\A l \in Lookups :
          /\ (/\ lk[l].pc = "GetCachedRange"
              /\ lk'[l].pc # "GetCachedRange"
              /\ lk'[l].failed # "GetCachedRange"
              /\ GetCachedRange(tier2, IPOf(l)).countryCode # NoCountry)
             => /\ lk'[l].pc = "SetCountry"
                /\ lk'[l].hit = "tier2"
                /\ lk'[l].countryCode = GetCachedRange(tier2, IPOf(l)).countryCode
          /\ (/\ lk[l].pc = "SetCountry"
              /\ lk[l].hit = "tier2"
              /\ lk'[l].pc # "SetCountry")
             => /\ lk'[l].pc = "done"
                /\ lk'[l].countryCode = lk[l].countryCode
                /\ lk'[l].err = Nil
                /\ lk'[l].calls = {"GetCountry", "GetCachedRange", "SetCountry"}
                /\ tier1' = IF lk'[l].failed = "SetCountry" THEN tier1
                            ELSE [tier1 EXCEPT ![lk[l].ipStr] = lk[l].countryCode]]_vars

\* C9 witness: a tier-2 hit with CA whose tier-1 write failed has returned CA
C9_Witness ==
    \E l \in Lookups :
       /\ lk[l].pc = "done"
       /\ lk[l].hit = "tier2"
       /\ lk[l].countryCode = "CA"
       /\ lk[l].failed = "SetCountry"
       /\ lk[l].err = Nil

\* C10: a lookup returns an error exactly when the address string does not
\* parse or its store query failed; a failed cache call leaves it without
\* one
C10_OnlyInvalidOrStoreErrors ==
    \A l \in Lookups :
       /\ lk[l].pc = "done"
          => (lk[l].err # Nil <=> (IPOf(l) = <<>> \/ lk[l].failed = "FindCountryForIP"))
       /\ lk[l].failed \in {"GetCountry", "GetCachedRange", "SetCountry"}
          => lk[l].err = IF IPOf(l) = <<>> THEN "invalid IP address" ELSE Nil

\* C10 witness: the tier-1 read and then the tier-2 read failed and the
\* lookup got its answer from the store
C10_Witness ==
    \E l \in Lookups :
       /\ lk[l].pc = "done"
       /\ lk[l].failed = "GetCachedRange"
       /\ lk[l].got = NoCountry
       /\ lk[l].hit = "store"
       /\ lk[l].countryCode = "US"
       /\ lk[l].err = Nil

\* the ranges of the fetches that succeeded, in the order of the sources
RECURSIVE Aggregate(_)
Aggregate(results) ==
    IF results = <<>> THEN <<>>
    ELSE Aggregate(SubSeq(results, 1, Len(results) - 1))
            \o results[Len(results)].ranges

\* the fetches of a cycle all failed
AllFailed(results) ==
    /\ Len(results) = NumRIRs
    /\ \A i \in 1..Len(results) : ~results[i].ok

\* caller c takes the step that leaves pc
Leaves(c, pc) == upd[c].pc = pc /\ upd'[c].pc # pc

\* C11: a cycle whose fetches all failed goes from the loop straight to
\* its return with the error "no IP ranges fetched", the store and tier 2
\* untouched by the loop and by the return, and its caller gets the error
C11_AllSourcesFailNoMutation ==
    [][\A c \in Callers :
          /\ (Leaves(c, "FetchIPRanges") /\ AllFailed(upd'[c].results))
             => /\ upd'[c].pc = "Unlock"
                /\ upd'[c].err = "no IP ranges fetched"
                /\ upd'[c].errors = NumRIRs
                /\ UNCHANGED <<store, tier2>>
          /\ (Leaves(c, "Unlock") /\ AllFailed(upd[c].results))
             => /\ upd'[c].pc = IF c = "start" THEN "failed"
                                ELSE IF c = "ticker" THEN "select" ELSE "Lock"
                /\ store = upd[c].before
                /\ UNCHANGED <<store, tier2>>]_vars

\* C11 witness: every fetch of a scheduled cycle failed and the cycle is at
\* its return with the error, the table still holding 8.0.0.0/8 US
C11_Witness ==
    /\ upd["ticker"].pc = "Unlock"
    /\ AllFailed(upd["ticker"].results)
    /\ upd["ticker"].err = "no IP ranges fetched"
    /\ store = SaveIPRanges({}, <<R8US>>)
    /\ store = upd["ticker"].before

\* C12 as stated: a cycle in which a fetch succeeded goes on to clear the
\* store
C12_AnySuccessProceeds ==
    [][\A c \in Callers :
          (Leaves(c, "FetchIPRanges") /\ ~AllFailed(upd'[c].results))
          => upd'[c].pc = "ClearIPRanges"]_vars

\* C12: a cycle whose successful fetches returned a range goes on, however
\* many fetches failed, with allRanges the ranges of exactly the fetches
\* that succeeded; it clears the store, then (the clear done) saves
\* allRanges into the empty table, then (the save done) rebuilds tier 2
\* from allRanges
C12_PartialSuccessProceeds ==
    [][\A c \in Callers :
          /\ (Leaves(c, "FetchIPRanges") /\ Aggregate(upd'[c].results) # <<>>)
             => /\ upd'[c].pc = "ClearIPRanges"
                /\ upd'[c].allRanges = Aggregate(upd'[c].results)
                /\ UNCHANGED <<store, tier2>>
          /\ (Leaves(c, "ClearIPRanges") /\ upd'[c].err = Nil)
             => /\ upd'[c].pc = "SaveIPRanges"
                /\ store' = {}
                /\ upd'[c].allRanges = upd[c].allRanges
                /\ UNCHANGED tier2
          /\ (Leaves(c, "SaveIPRanges") /\ upd'[c].err = Nil)
             => /\ upd'[c].pc = "CacheIPRanges"
                /\ store = {}
                /\ store' = SaveIPRanges({}, upd[c].allRanges)
                /\ upd'[c].allRanges = upd[c].allRanges
                /\ UNCHANGED tier2
          /\ (Leaves(c, "CacheIPRanges") /\ upd'[c].cacheErr = Nil)
             => /\ upd'[c].pc = "Unlock"
                /\ tier2' = CacheIPRanges(upd[c].allRanges)
                /\ store = SaveIPRanges({}, upd[c].allRanges)
                /\ UNCHANGED store]_vars

\* C12 witness: a cycle in which one fetch failed and the other returned
\* 0.0.0.0/0 CA is at its return, the table and tier 2 holding that range
C12_Witness ==
    \E c \in Callers :
       /\ upd[c].pc = "Unlock"
       /\ upd[c].err = Nil
       /\ upd[c].errors = 1
       /\ store = SaveIPRanges({}, <<R0CA>>)
       /\ tier2 = CacheIPRanges(<<R0CA>>)

\* C13: a cycle whose CacheIPRanges failed returns nil, the table holding
\* the ranges it saved; Start, when it is the caller, goes on to launch
\* the ticker goroutine
C13_CacheFailureIsSuccess ==
    [][\A c \in Callers :
          /\ (Leaves(c, "CacheIPRanges") /\ upd'[c].cacheErr # Nil)
             => /\ upd'[c].pc = "Unlock"
                /\ upd'[c].err = Nil
                /\ store = SaveIPRanges({}, upd[c].allRanges)
                /\ UNCHANGED store
          /\ (Leaves(c, "Unlock") /\ upd[c].cacheErr # Nil)
             => /\ upd'[c].pc = IF c = "start" THEN "started"
                                ELSE IF c = "ticker" THEN "select" ELSE "Lock"
                /\ UNCHANGED store]_vars

\* C13 witness: the cycle saved 8.0.0.0/8 US and 0.0.0.0/0 CA, its
\* CacheIPRanges failed leaving tier 2 empty, and it is at its return
C13_Witness ==
    \E c \in Callers :
       /\ upd[c].pc = "Unlock"
       /\ upd[c].cacheErr # Nil
       /\ upd[c].err = Nil
       /\ store = SaveIPRanges({}, <<R8US, R0CA>>)
       /\ tier2 = {}

\* C14: Start calls UpdateIPRanges when the count it read is zero and only
\* then, and it does so once: it launches the ticker goroutine when it
\* found rows or when its cycle returned nil, never before, and no caller
\* comes back to Start's call
C14_StartupRefreshIffEmpty ==
    [][/\ Leaves("start", "Start")
          => \/ upd'["start"].pc = "failed"
             \/ /\ GetRangesCount(store) = 0
                /\ upd'["start"].pc = "Lock"
                /\ upd'["ticker"].pc = "off"
             \/ /\ GetRangesCount(store) > 0
                /\ upd'["start"].pc = "started"
                /\ upd'["ticker"].pc = "select"
       /\ upd'["start"].pc = "Lock" => upd["start"].pc \in {"Start", "Lock"}
       /\ upd["start"].pc \in {"Lock"} \cup InCycle
          => /\ upd["ticker"].pc = "off"
             /\ upd'["start"].pc \in {"Lock", "failed", "started"} \cup InCycle
             /\ upd'["ticker"].pc = IF upd'["start"].pc = "started"
                                    THEN "select" ELSE "off"
       /\ upd["start"].pc \in {"failed", "started"} => UNCHANGED upd["start"]]_vars

\* C14 witness: Start found the table empty, its one cycle loaded
\* 8.0.0.0/8 US, and the ticker goroutine waits for its first tick
C14_Witness ==
    /\ upd["start"].pc = "started"
    /\ upd["ticker"].pc = "select"
    /\ store = SaveIPRanges({}, <<R8US, R0CA>>)
    /\ answered = [s \in AddrStrings |-> "none"]
    /\ tier1 = [s \in AddrStrings |-> NoCountry]
    /\ tier2 = CacheIPRanges(<<R8US, R0CA>>)

(***************************************************************************)
(* Properties of the feed fetcher and the parser.                          *)
(***************************************************************************)
\* an attempt of the call is under way
Attempting == ft.pc \in {"fetchWithTimeout", "Scan", "fetched"}

\* C15: FetchIPRanges starts at most 3 attempts, the attempt of index k
\* after delays of 5s, ..., 5k s; an attempt that returns no error ends the
\* call with what the attempt returned; the call returns an error only
\* after 3 failed attempts and delays of 5s and 10s, and the error wraps
\* the error of the last attempt
C15_ThreeAttemptsLinearBackoff ==
    [][/\ ft'.attempt <= 3
       /\ Attempting' => /\ ft'.attempt < 3
                         /\ ft'.slept = [k \in 1..ft'.attempt |-> 5 * k]
       /\ (ft.pc = "fetched" /\ ft'.pc # "fetched" /\ ft.ret.err = Nil)
          => /\ ft'.pc = "returned"
             /\ ft'.ret = ft.ret
             /\ ft'.slept = ft.slept
       /\ (ft'.pc = "returned" /\ ft'.ret.err # Nil)
          => /\ ft'.attempt = 3
             /\ ft'.slept = <<5, 10>>
             /\ ft'.ret.cause = ft'.err
             /\ ft'.ret.cause # Nil]_vars

\* C15 witness: the server answered 500 to each of 3 attempts, the call
\* slept 5s and 10s and returned the error wrapping the status error
C15_Witness ==
    /\ ft.pc = "returned"
    /\ ~ft.ctxDone
    /\ ft.attempt = 3
    /\ ft.slept = <<5, 10>>
    /\ ft.ret.err = "failed after attempts"
    /\ ft.ret.cause = "unexpected status code"
    /\ ft.ret.ranges = <<>>

\* C16: once the context is done, FetchIPRanges sleeps no delay and starts
\* no attempt
C16_RetryLoopHonoursCancel ==
    [][ft.ctxDone
       => /\ ft'.slept = ft.slept
          /\ ~(ft.pc \in {"loop", "fetchWithTimeout"} /\ ft'.pc \in {"Scan", "fetched"})]_vars

\* what the loop over the first n lines of a body may leave in ranges and
\* stats
RECURSIVE ScanLines(_, _)
ScanLines(body, n) ==
    IF n = 0 THEN {[ranges |-> <<>>, stats |-> NoStats]}
    ELSE UNION {ScanLine(r.ranges, r.stats, body[n]) : r \in ScanLines(body, n - 1)}

\* C17: what fetchWithTimeout and FetchIPRanges return with an error has no
\* range, and what they return without one has the ranges of the lines of
\* the attempt's own body
C17_NoRangesFromFailedAttempt ==
    ft.pc \in {"fetched", "returned"}
    => IF ft.ret.err # Nil
       THEN ft.ret.ranges = <<>>
       ELSE ft.ret.ranges \in {r.ranges : r \in ScanLines(ft.body, Len(ft.body))}

\* C17 witness: the second attempt parsed 8.0.0.0/8 US, then its read
\* failed, and it returned the error with no range
C17_Witness ==
    /\ ft.pc = "fetched"
    /\ ft.attempt = 1
    /\ ft.ret.err = "reading RIR data"
    /\ ft.ranges = <<R8US>>
    /\ ft.ret.ranges = <<>>

\* the line the loop classifies in a step
NextLine == ft'.body[ft.scanned + 1]

\* the loop classifies a line
Scans == ft.pc = "Scan" /\ ft'.scanned = ft.scanned + 1

\* the line was counted as a parse error and gave no range
ParseError ==
    /\ ft'.stats = [ft.stats EXCEPT !.ParseErrors = @ + 1]
    /\ ft'.ranges = ft.ranges

\* C18: an ipv4 line that passes the skip rules and whose count is a number
\* but no power of two is counted as a parse error and gives no range
C18_NonPowerOfTwoIsParseError ==
    [][(/\ Scans
        /\ ~Skipped(NextLine)
        /\ NextLine.family = "ipv4"
        /\ NextLine.value.ok
        /\ ~IsPowerOfTwo(NextLine.value))
       => ParseError]_vars

\* the count of an ipv4 line is 0, negative or above 2^32; the prefix of an
\* ipv6 line is negative or above 128
OutOfRange(line) ==
    /\ line.value.ok
    /\ IF line.family = "ipv4"
       THEN \/ IsZero(line.value)
            \/ line.value.neg
            \/ line.value.hi > 65536
            \/ line.value.hi = 65536 /\ line.value.lo > 0
       ELSE \/ line.value.neg /\ ~IsZero(line.value)
            \/ line.value.hi > 0
            \/ line.value.lo > 128

\* the prefix length of a range is valid for its family and the host bits
\* of its base address are zero
ValidRange(r) ==
    /\ MaskOnes(r.Network.Mask) \in 0..(IF r.Version = 4 THEN 32 ELSE 128)
    /\ Len(r.Network.IP) = Len(r.Network.Mask)
    /\ MaskIP(r.Network.IP, r.Network.Mask) = r.Network.IP

\* C19: every range the loop holds is valid, and a line that passes the
\* skip rules with a count or prefix out of range is counted as a parse
\* error and gives no range
C19_PrefixValidOrParseError ==
    [][/\ \A i \in 1..Len(ft'.ranges) : ValidRange(ft'.ranges[i])
       /\ (Scans /\ ~Skipped(NextLine) /\ OutOfRange(NextLine)) => ParseError]_vars

\* C20: a line that is empty or starts with '#', has fewer than 7 fields,
\* has country '*', a status other than allocated and assigned, or a
\* family other than ipv4 and ipv6 adds one to SkippedCount and nothing
\* else; any other line adds either one range and one to the count of its
\* family, or one to ParseErrors; and the loop goes on to the next line
C20_LineClassification ==
    [][Scans
       => /\ ft'.pc = "Scan"
          /\ IF \/ NextLine.empty
                \/ NextLine.hash
                \/ NextLine.nfields < 7
                \/ NextLine.cc = "*"
                \/ NextLine.status \notin {"allocated", "assigned"}
                \/ NextLine.family \notin {"ipv4", "ipv6"}
             THEN /\ ft'.stats = [ft.stats EXCEPT !.SkippedCount = @ + 1]
                  /\ ft'.ranges = ft.ranges
             ELSE \/ ParseError
                  \/ /\ Len(ft'.ranges) = Len(ft.ranges) + 1
                     /\ SubSeq(ft'.ranges, 1, Len(ft.ranges)) = ft.ranges
                     /\ ft'.ranges[Len(ft'.ranges)].CountryCode = NextLine.cc
                     /\ ft'.stats =
                           IF NextLine.family = "ipv4"
                           THEN [ft.stats EXCEPT !.IPv4Count = @ + 1]
                           ELSE [ft.stats EXCEPT !.IPv6Count = @ + 1]]_vars

\* C20 witness: of a body of two lines the loop skipped the one whose
\* status is reserved and made 2001:db8::/32 CA of the other
C20_Witness ==
    /\ ft.pc = "Scan"
    /\ ft.scanned = 2
    /\ ft.body[1].status = "reserved"
    /\ ft.stats = [NoStats EXCEPT !.SkippedCount = 1, !.IPv6Count = 1]
    /\ ft.ranges = <<IPRange(ParseIP("2001:db8::"), 32, "CA", 6)>>

(***************************************************************************)
(* Properties of the repository and the range cache.                       *)
(***************************************************************************)
\* the rows whose network contains the address (the address itself
\* included)
Containing(rows, ip) ==
    LET x == IF To4(ip) # <<>> THEN To4(ip) ELSE ip
    IN  {q \in rows : /\ Len(q.network.IP) = Len(x)
                      /\ MaskIP(x, CIDRMask(q.network.Ones, 8 * Len(x)))
                            = q.network.IP}

\* C21: FindCountryForIP answers the country of the stored range of the
\* longest prefix among those containing the address, and ZZ when no
\* stored range contains it
C21_MostSpecificRange ==
    rp.found # NotAsked
    => LET in == Containing(store, ParseIP(rp.ipStr))
       IN  IF in = {} THEN rp.found = ZZ
           ELSE \E r \in in :
                   /\ \A q \in in : q.network.Ones <= r.network.Ones
                   /\ rp.found = r.country_code

C23_UpsertLastWins ==
    (rp.pc \in {"CacheIPRanges", "returned"})
    => \A i \in 1..Len(rp.ranges) :
          LET same == {j \in 1..Len(rp.ranges) :
                          rp.ranges[j].Network = rp.ranges[i].Network}
              last == CHOOSE j \in same : \A k \in same : k <= j
              rows == {r \in store : r.network = Cidr(rp.ranges[i].Network)}
          IN  /\ Cardinality(rows) = 1
              /\ \A r \in rows : r.country_code = rp.ranges[last].CountryCode

\* C23 witness: the set held 8.0.0.0/8 as US, then 9.0.0.0/8, then
\* 8.0.0.0/8 as CA, and the table holds 8.0.0.0/8 CA and 9.0.0.0/8 US
C23_Witness ==
    /\ rp.pc = "CacheIPRanges"
    /\ rp.ranges = <<R8US, R9US, R8CA>>
    /\ store = {Row(R8CA), Row(R9US)}

(***************************************************************************)
(* Properties of the handlers, the update guard and the ticker.            *)
(***************************************************************************)
\* C24: the response of the health route is 200 {status: healthy}; that of
\* the lookup route is 400 for a malformed address, 500 when the query of
\* the store failed, 404 when the country is ZZ, and 200 with the address
\* and the country otherwise
C24_StatusCodes ==
    \A l \in Lookups :
       lk[l].pc = "responded"
       => IF lk[l].route = "health"
          THEN lk[l].response = [status |-> 200, body |-> [status |-> "healthy"]]
          ELSE /\ lk[l].response.status =
                     (CASE IPOf(l) = <<>> -> 400
                        [] IPOf(l) # <<>> /\ lk[l].failed = "FindCountryForIP" -> 500
                        [] IPOf(l) # <<>> /\ lk[l].failed # "FindCountryForIP"
                             /\ lk[l].countryCode = ZZ -> 404
                        [] OTHER -> 200)
               /\ lk[l].response.status = 200
                     => /\ lk[l].countryCode \notin {ZZ, NoCountry}
                        /\ lk[l].response.body =
                              [ip |-> lk[l].ipStr,
                               country_code |-> lk[l].countryCode]

\* C24 witness: the store answered ZZ for 8.8.8.8 (tier 1 failed, tier 2
\* missed) and the handler wrote 404
C24_Witness ==
    /\ lk["l1"].pc = "responded"
    /\ lk["l1"].ipStr = "8.8.8.8"
    /\ lk["l1"].hit = "store"
    /\ lk["l1"].failed = "GetCountry"
    /\ lk["l1"].countryCode = ZZ
    /\ lk["l1"].response.status = 404

\* C25: a step of a lookup leaves updateMux alone; whoever holds updateMux,
\* a handler can start a lookup and take the next step of the one it is
\* in; and whatever the handlers do, a caller of UpdateIPRanges can take
\* the next step of its cycle, and can lock updateMux when it is free
C25_GuardSerializesRefreshOnly ==
    /\ [][lk' # lk => updateMux' = updateMux]_vars
    /\ [](\A l \in Lookups :
            /\ lk[l].pc = "idle" => \A s \in AddrStrings : ENABLED LookupIP(l, s)
            /\ lk[l].pc = "GetCountry" => ENABLED GetCountry(l)
            /\ lk[l].pc = "GetCachedRange" => ENABLED GetCachedRangeStep(l)
            /\ lk[l].pc = "FindCountryForIP" => ENABLED FindCountryForIPStep(l)
            /\ lk[l].pc = "SetCountry" => ENABLED SetCountry(l)
            /\ lk[l].pc = "done" => ENABLED Respond(l)
            /\ lk[l].pc = "responded" => ENABLED Return(l))
    /\ [](\A c \in Callers :
            /\ (upd[c].pc = "Lock" /\ updateMux = Free) => ENABLED Lock(c)
            /\ upd[c].pc = "FetchIPRanges" => ENABLED FetchIPRanges(c)
            /\ upd[c].pc = "ClearIPRanges" => ENABLED ClearIPRanges(c)
            /\ upd[c].pc = "SaveIPRanges" => ENABLED SaveIPRangesStep(c)
            /\ upd[c].pc = "CacheIPRanges" => ENABLED CacheIPRangesStep(c)
            /\ upd[c].pc = "Unlock" => ENABLED Unlock(c))

\* C25 witness: the ticker goroutine holds updateMux, has truncated the
\* table and is about to save, while a handler is between its tier-2 miss
\* and its query of the store
C25_Witness ==
    /\ updateMux = "ticker"
    /\ upd["ticker"].pc = "SaveIPRanges"
    /\ store = {}
    /\ lk["l1"].pc = "FindCountryForIP"
    /\ lk["l1"].calls = {"GetCountry", "GetCachedRange"}

\* C26: the ticker goroutine starts a refresh only on a tick that fires
\* while it waits in its select, never on one that fired during the
\* previous run and stayed in the channel
C26_TicksDuringRunDropped ==
    [][(upd["ticker"].pc = "select" /\ upd'["ticker"].pc = "Lock")
       => tickC = 0]_vars

\* the masks CacheIPRanges can have formatted
Masks == {CIDRMask(ones, 32) : ones \in 0..32} \cup {CIDRMask(ones, 128) : ones \in 0..128}

\* the mask whose text a member holds
MaskOf(member) == CHOOSE mask \in Masks : MaskString(mask) = member.Mask

\* the start address an entry is indexed by, as four bytes
StartOf(e) ==
    <<e.Score \div 16777216, (e.Score \div 65536) % 256,
      (e.Score \div 256) % 256, e.Score % 256>>

\* the address lies in the range of the entry: it is an IPv4 address, the
\* mask is an IPv4 mask, and the address masked is the entry's start
InEntry(e, ip) ==
    /\ To4(ip) # <<>>
    /\ Len(MaskOf(e.Member)) = 4
    /\ MaskIP(To4(ip), MaskOf(e.Member)) = StartOf(e)

\* the entries of the greatest score among those at or below the key
Selected(zset, ip) ==
    {e \in zset : /\ e.Score <= ipToInt(ip)
                  /\ \A f \in zset : f.Score <= ipToInt(ip) => f.Score <= e.Score}

\* C27: GetCachedRange answers the country of the entry with the greatest
\* start at or below the address's key if the address lies in that entry's
\* range, and no country and no error if it does not or there is no such
\* entry
C27_Tier2Containment ==
    rp.cached # NoAnswer
    => LET sel == Selected(tier2, ParseIP(rp.ipStr))
       IN  IF \E e \in sel : InEntry(e, ParseIP(rp.ipStr))
           THEN /\ rp.cached.err = Nil
                /\ \E e \in sel : /\ InEntry(e, ParseIP(rp.ipStr))
                                  /\ rp.cached.countryCode = e.Member.CountryCode
           ELSE rp.cached = [countryCode |-> NoCountry, err |-> Nil]

\* C28: once CacheIPRanges has succeeded the sorted set holds, for every
\* IPv4 range of the aggregated set, its member scored by its start
\* address, and no entry that is not that of a range of the set
C28_OneEntryPerRange ==
    rp.pc = "returned"
    => /\ \A i \in 1..Len(rp.ranges) :
             rp.ranges[i].Version = 4
             => [Member |-> Member(rp.ranges[i]),
                 Score |-> ipToInt(rp.ranges[i].Network.IP)] \in tier2
       /\ \A e \in tier2 :
             \E i \in 1..Len(rp.ranges) :
                e = [Member |-> Member(rp.ranges[i]),
                     Score |-> ipToInt(rp.ranges[i].Network.IP)]

\* two networks share an address
Overlap(a, b) ==
    /\ Len(a.IP) = Len(b.IP)
    /\ \/ Contains(a, b.IP)
       \/ Contains(b, a.IP)

\* the ranges of an aggregated set are pairwise disjoint
Disjoint(ranges) ==
    \A i, j \in 1..Len(ranges) :
       i < j => ~Overlap(ranges[i].Network, ranges[j].Network)

\* C29: after a cycle over pairwise disjoint ranges, GetCachedRange answers
\* for an address no country or the country FindCountryForIP answers
C29_Tier2AgreesWithStore ==
    (/\ rp.pc = "returned"
     /\ Disjoint(rp.ranges)
     /\ rp.found # NotAsked
     /\ rp.cached # NoAnswer)
    => \/ rp.cached.countryCode = NoCountry
       \/ rp.cached.countryCode = rp.found

\* C30: a step of Start, of the ticker or of UpdateIPRanges leaves every
\* tier-1 entry as it is; tier 1 changes only when a lookup that did not
\* hit tier 1 writes its answer, and when an entry expires
C30_RefreshLeavesTier1 ==
    [][/\ upd' # upd => tier1' = tier1
       /\ tier1' # tier1
          => \/ \E l \in Lookups :
                   /\ lk[l].pc = "SetCountry"
                   /\ lk[l].hit \in {"tier2", "store"}
                   /\ lk'[l].pc = "done"
                   /\ tier1' = [tier1 EXCEPT ![lk[l].ipStr] = lk[l].countryCode]
             \/ \E s \in AddrStrings :
                   /\ lk' = lk
                   /\ tier1' = [tier1 EXCEPT ![s] = NoCountry]]_vars

\* C30 witness: tier 1 holds US for 8.8.8.8 from the table of before, and a
\* cycle of the ticker goroutine has replaced the table and the sorted set
\* by 0.0.0.0/0 CA and is about to return
C30_Witness ==
    /\ upd["ticker"].pc = "Unlock"
    /\ upd["ticker"].err = Nil
    /\ upd["ticker"].cacheErr = Nil
    /\ tier1["8.8.8.8"] = "US"
    /\ store = SaveIPRanges({}, <<R0CA>>)
    /\ tier2 = CacheIPRanges(<<R0CA>>)

\* C31: when every call of a cycle returns, a caller that holds updateMux
\* eventually leaves UpdateIPRanges with the mutex released, on every exit
\* path; and the ticker goroutine's return from UpdateIPRanges, failed or
\* not, frees the mutex and takes it back to its select
C31_CycleReturnsToIdle ==
    /\ \A c \in Callers :
          (updateMux = c) ~> (updateMux # c /\ upd[c].pc \notin InCycle)
    /\ \A c \in Callers :
          \A err \in {"no IP ranges fetched", "clearing existing IP ranges",
                      "save failed", Nil} :
             \A cacheErr \in {Nil, "redis error"} :
                (/\ upd[c].pc = "Unlock"
                 /\ upd[c].err = err
                 /\ upd[c].cacheErr = cacheErr)
                ~> (updateMux # c /\ upd[c].pc \notin InCycle)
    /\ [][upd["ticker"].pc = "Unlock" /\ upd'["ticker"].pc # "Unlock"
          => /\ updateMux' = Free
             /\ upd'["ticker"].pc = "select"]_vars

\* C31 witness: the ticker goroutine is back in its select with the mutex
\* free, after a cycle that truncated the table and failed to save, and a
\* tick is waiting to start the next cycle
C31_Witness ==
    /\ upd["ticker"].pc = "select"
    /\ updateMux = Free
    /\ store = {}
    /\ tickC = 1

====
